---- MODULE Spec2Model ----
(***************************************************************************)
(* A model of src/src/SimulationAndRand.py: the two mixed congruential     *)
(* generators, the two acceptance-rejection samplers, the two inverse      *)
(* transform samplers and integrate_and_find_inverse.                      *)
(*                                                                         *)
(* A behaviour is one driver run: the driver picks the arguments and calls *)
(* the function(s) of one family, one call after the other (the library is *)
(* synchronous and single threaded).  Every loop iteration is one step.    *)
(***************************************************************************)
EXTENDS Integers, Sequences, FiniteSets, TLC

VARIABLES
    args,               \* the arguments of the call(s), a record
    pc,                 \* function name -> "pending" | "loop" | "after_loop" | "returned" | "raised"
    ret,                \* function name -> the value returned (NoValue before)
    exc,                \* function name -> the exception raised ("" when none)
    numbers_generated,  \* congruential engines: function name -> list
    it,                 \* congruential engines: function name -> loop counter
    current_x,          \* congruential engines: function name -> current_x
    m,                  \* acceptance-rejection: the bound m, given (line 62) or computed (line 134)
    i,                  \* acceptance-rejection: position of range(upper_limit)
    first_random,       \* acceptance-rejection locals (Unbound before the first trial)
    second_random,
    x,                  \* x (line 75) or x_value (line 140)
    evaluation_image,
    trials,             \* history: the outcome of the acceptance test of each trial so far
    rvs,                \* inverse-transform samplers: the batch being collected
    U,                  \* inverse-transform samplers: the last uniform draw
    rv,                 \* inverse-transform samplers: the last candidate
    accepted_U,         \* history: the draw each element of rvs came from
    draws,              \* history: the number of uniform draws made
    integrated,         \* integrate_and_find_inverse: the integral
    inverse             \* integrate_and_find_inverse: the solver's answer

lcgVars == <<numbers_generated, it, current_x>>
arVars  == <<m, i, first_random, second_random, x, evaluation_image, trials>>
itsVars == <<rvs, U, rv, accepted_U, draws>>
invVars == <<integrated, inverse>>
vars    == <<args, pc, ret, exc, lcgVars, arVars, itsVars, invVars>>

Raw     == "random_mixed_congruential_generator"
Uni     == "uniform_random_from_mixed_congruential_generator"
AR      == "generate_acceptance_rejection"
ARSymp  == "generate_acceptance_rejection_with_symp"
ITS     == "inverse_transform_sampling"
UserITS == "user_inverse_transform_sampling_from_inverse"
Inv     == "integrate_and_find_inverse"

Engines == {Raw, Uni}

\* Among the samplers' numbers (records n, d with d > 0), None and a local
\* that no assignment has bound yet:
PyNone  == [n |-> 0, d |-> 0]
Unbound == [n |-> 1, d |-> 0]

\* What a call has returned.
NoValue      == [kind |-> "no value", value |-> <<>>]
ReturnNone   == [kind |-> "None", value |-> <<>>]
Returned(v)  == [kind |-> "value", value |-> v]

----------------------------------------------------------------------------
(* Python integers are unbounded.  The values of the recurrence are kept   *)
(* as sign and magnitude, the magnitude a sequence of bits, least          *)
(* significant first, without leading zeros (zero is the empty sequence).  *)

\* TLC evaluates an operand each time the body of an operator uses it: the
\* arithmetic binds its operands once, as the elements of singletons.

\* the highest set bit decides the length
Trim(b) ==
    CHOOSE r \in {
        LET ones == {k \in 1..Len(v) : v[k] = 1}
        IN  IF ones = {} THEN <<>>
            ELSE SubSeq(v, 1, CHOOSE k \in ones : \A j \in ones : j <= k)
        : v \in {b}} : TRUE

RECURSIVE NatBits(_)
NatBits(k) == IF k = 0 THEN <<>> ELSE <<k % 2>> \o NatBits(k \div 2)

RECURSIVE BitsNat(_)
BitsNat(b) == IF b = <<>> THEN 0 ELSE b[1] + 2 * BitsNat(Tail(b))

Bit(b, k) == IF k <= Len(b) THEN b[k] ELSE 0

Max(p, q) == IF p >= q THEN p ELSE q

Min(p, q) == IF p <= q THEN p ELSE q

\* The loops over the bits of a number are folds over lo..hi, split in halves
\* (a recursion as deep as the logarithm of the length).  TLC evaluates an
\* operand each time it is used: the result of the lower half is bound once,
\* as the element of a singleton, before the upper half starts.
AddStep(p, q, k, acc) ==
    LET s == Bit(p, k) + Bit(q, k) + acc.c
    IN  [c |-> s \div 2, out |-> Append(acc.out, s % 2)]

RECURSIVE AddFold(_, _, _, _, _)
AddFold(p, q, lo, hi, acc) ==
    CHOOSE r \in {
        IF l > h THEN acc
        ELSE IF l = h THEN AddStep(p, q, l, acc)
        ELSE CHOOSE t \in {AddFold(p, q, (l + h) \div 2 + 1, h, left)
                             : left \in {AddFold(p, q, l, (l + h) \div 2, acc)}} : TRUE
        : l \in {lo}, h \in {hi}} : TRUE

BAdd(p, q) ==
    CHOOSE r \in {
        Trim(AddFold(u, w, 1, Max(Len(u), Len(w)) + 1, [c |-> 0, out |-> <<>>]).out)
        : u \in {p}, w \in {q}} : TRUE

SubStep(p, q, k, acc) ==
    LET d == Bit(p, k) - Bit(q, k) - acc.c
    IN  [c |-> IF d < 0 THEN 1 ELSE 0, out |-> Append(acc.out, d % 2)]

RECURSIVE SubFold(_, _, _, _, _)
SubFold(p, q, lo, hi, acc) ==
    CHOOSE r \in {
        IF l > h THEN acc
        ELSE IF l = h THEN SubStep(p, q, l, acc)
        ELSE CHOOSE t \in {SubFold(p, q, (l + h) \div 2 + 1, h, left)
                             : left \in {SubFold(p, q, l, (l + h) \div 2, acc)}} : TRUE
        : l \in {lo}, h \in {hi}} : TRUE

\* p - q for p >= q
BSub(p, q) ==
    CHOOSE r \in {
        Trim(SubFold(u, w, 1, Len(u), [c |-> 0, out |-> <<>>]).out)
        : u \in {p}, w \in {q}} : TRUE

BLess(p, q) ==
    \E u \in {p}, w \in {q} :
        IF Len(u) # Len(w) THEN Len(u) < Len(w)
        ELSE \E k \in 1..Len(u) :
                u[k] < w[k] /\ \A j \in (k + 1)..Len(u) : u[j] = w[j]

BShl(p, k) ==
    CHOOSE r \in {IF u = <<>> \/ k <= 0 THEN u ELSE [j \in 1..k |-> 0] \o u
                     : u \in {p}} : TRUE

MulStep(p, q, k, acc) == IF p[k] = 1 THEN BAdd(acc, BShl(q, k - 1)) ELSE acc

RECURSIVE MulFold(_, _, _, _, _)
MulFold(p, q, lo, hi, acc) ==
    CHOOSE r \in {
        IF l > h THEN acc
        ELSE IF l = h THEN MulStep(p, q, l, acc)
        ELSE CHOOSE t \in {MulFold(p, q, (l + h) \div 2 + 1, h, left)
                             : left \in {MulFold(p, q, l, (l + h) \div 2, acc)}} : TRUE
        : l \in {lo}, h \in {hi}} : TRUE

BMul(p, q) ==
    CHOOSE r \in {MulFold(u, w, 1, Len(u), <<>>) : u \in {p}, w \in {q}} : TRUE

\* long division, the bit of highest weight first
DivStep(p, q, k, acc) ==
    LET r2 == Trim(<<p[Len(p) + 1 - k]>> \o acc.r)
    IN  IF BLess(r2, q)
        THEN [q |-> <<0>> \o acc.q, r |-> r2]
        ELSE [q |-> <<1>> \o acc.q, r |-> BSub(r2, q)]

RECURSIVE DivFold(_, _, _, _, _)
DivFold(p, q, lo, hi, acc) ==
    CHOOSE r \in {
        IF l > h THEN acc
        ELSE IF l = h THEN DivStep(p, q, l, acc)
        ELSE CHOOSE t \in {DivFold(p, q, (l + h) \div 2 + 1, h, left)
                             : left \in {DivFold(p, q, l, (l + h) \div 2, acc)}} : TRUE
        : l \in {lo}, h \in {hi}} : TRUE

\* quotient and remainder of p by q, q # 0
BDivMod(p, q) ==
    CHOOSE r \in {
        CHOOSE t \in {[q |-> Trim(dm.q), r |-> dm.r]
                         : dm \in {DivFold(u, w, 1, Len(u), [q |-> <<>>, r |-> <<>>])}} : TRUE
        : u \in {p}, w \in {q}} : TRUE

Z(neg, mag) ==
    CHOOSE r \in {[neg |-> neg /\ v # <<>>, mag |-> v] : v \in {mag}} : TRUE

ZInt(k) == Z(k < 0, NatBits(IF k < 0 THEN -k ELSE k))

ZToInt(z) == IF z.neg THEN -BitsNat(z.mag) ELSE BitsNat(z.mag)

ZAdd(p, q) ==
    CHOOSE r \in {
        IF u.neg = w.neg THEN Z(u.neg, BAdd(u.mag, w.mag))
        ELSE IF BLess(u.mag, w.mag) THEN Z(w.neg, BSub(w.mag, u.mag))
        ELSE Z(u.neg, BSub(u.mag, w.mag))
        : u \in {p}, w \in {q}} : TRUE

ZMul(p, q) ==
    CHOOSE r \in {Z(u.neg # w.neg, BMul(u.mag, w.mag)) : u \in {p}, w \in {q}} : TRUE

ZLess(p, q) ==
    \E u \in {p}, w \in {q} :
        IF u.neg # w.neg THEN u.neg
        ELSE IF u.neg THEN BLess(w.mag, u.mag) ELSE BLess(u.mag, w.mag)

\* Python's %: the result has the sign of the divisor (divisor # 0)
PyMod(p, q) ==
    CHOOSE r \in {
        CHOOSE t \in {IF rem = <<>> THEN Z(FALSE, <<>>)
                         ELSE IF u.neg = w.neg THEN Z(w.neg, rem)
                         ELSE Z(w.neg, BSub(w.mag, rem))
                         : rem \in {BDivMod(u.mag, w.mag).r}} : TRUE
        : u \in {p}, w \in {q}} : TRUE

----------------------------------------------------------------------------
(* Python floats are IEEE-754 binary64: a value is neg, man, exp standing  *)
(* for (-1)^neg * man * 2^exp with man odd (or zero) and of at most        *)
(* MantissaBits bits; every operation rounds to nearest, ties to even.     *)
(* The exponent range is not modelled (no value here comes near it).       *)

MantissaBits == 53

FCanon(neg, bits, e) ==
    CHOOSE r \in {
        LET ones == {k \in 1..Len(v) : v[k] = 1}
        IN  IF ones = {} THEN [neg |-> FALSE, man |-> <<>>, exp |-> 0]
            ELSE LET low == CHOOSE k \in ones : \A j \in ones : k <= j
                 IN  [neg |-> neg, man |-> SubSeq(v, low, Len(v)),
                      exp |-> e + low - 1]
        : v \in {bits}} : TRUE

\* The float nearest to (-1)^neg * (bits + f) * 2^e, where 0 <= f < 1 and
\* sticky says f > 0 (then bits has at least MantissaBits + 2 bits).
Round(neg, bits, e, sticky) ==
    CHOOSE r \in {
        IF Len(v) <= MantissaBits THEN FCanon(neg, v, e)
        ELSE LET k     == Len(v) - MantissaBits
                 kept  == SubSeq(v, k + 1, Len(v))
                 below == sticky \/ \E j \in 1..(k - 1) : v[j] = 1
                 up    == v[k] = 1 /\ (below \/ kept[1] = 1)
             IN  FCanon(neg, IF up THEN BAdd(kept, <<1>>) ELSE kept, e + k)
        : v \in {bits}} : TRUE

FromInt(z) == CHOOSE r \in {Round(v.neg, v.mag, 0, FALSE) : v \in {z}} : TRUE

\* p and q scaled to the lower of their exponents
Aligned(p, q) ==
    CHOOSE r \in {
        LET e == Min(u.exp, w.exp)
        IN  [p |-> Z(u.neg, BShl(u.man, u.exp - e)),
             q |-> Z(w.neg, BShl(w.man, w.exp - e)), exp |-> e]
        : u \in {p}, w \in {q}} : TRUE

FAdd(p, q) ==
    CHOOSE r \in {
        CHOOSE t \in {Round(s.neg, s.mag, al.exp, FALSE)
                         : s \in {ZAdd(al.p, al.q)}} : TRUE
        : al \in {Aligned(p, q)}} : TRUE

\* p / q for q # 0
FDiv(p, q) ==
    CHOOSE r \in {
        LET s == MantissaBits + 2 + Len(w.man)
        IN  CHOOSE t \in {Round(u.neg # w.neg, dm.q, u.exp - w.exp - s, dm.r # <<>>)
                             : dm \in {BDivMod(BShl(u.man, s), w.man)}} : TRUE
        : u \in {p}, w \in {q}} : TRUE

FLess(p, q) == \E al \in {Aligned(p, q)} : ZLess(al.p, al.q)

----------------------------------------------------------------------------
(* The samplers' numbers (the uniform draws, the density's values, the     *)
(* candidates) are exact rationals n/d in lowest terms with d > 0: the     *)
(* draws come from a finite grid, and what the samplers do with a number   *)
(* is compare it.                                                          *)

Abs(k) == IF k < 0 THEN -k ELSE k

RECURSIVE GCD(_, _)
GCD(p, q) ==
    CHOOSE r \in {IF w = 0 THEN u ELSE GCD(w, u % w) : u \in {p}, w \in {q}} : TRUE

Q(n, d) ==
    CHOOSE r \in {[n |-> (IF w < 0 THEN -1 ELSE 1) * (u \div g),
                      d |-> (IF w < 0 THEN -1 ELSE 1) * (w \div g)]
                     : u \in {n}, w \in {d}, g \in {GCD(Abs(n), Abs(d))}} : TRUE

QInt(k) == [n |-> k, d |-> 1]

QAdd(p, q) ==
    CHOOSE r \in {Q(u.n * w.d + w.n * u.d, u.d * w.d) : u \in {p}, w \in {q}} : TRUE

QMul(p, q) ==
    CHOOSE r \in {Q(u.n * w.n, u.d * w.d) : u \in {p}, w \in {q}} : TRUE

\* p / q for q # 0
QDiv(p, q) ==
    CHOOSE r \in {Q(u.n * w.d, u.d * w.n) : u \in {p}, w \in {q}} : TRUE

QLeq(p, q) == \E u \in {p}, w \in {q} : u.n * w.d <= w.n * u.d

QLess(p, q) == \E u \in {p}, w \in {q} : u.n * w.d < w.n * u.d

----------------------------------------------------------------------------
(* The arguments the driver draws.                                         *)

MaxA          == 2      \* a, c range over -1..MaxA
MaxM          == 3      \* m ranges over -MaxNegM..MaxM
MaxNegM       == 1
MaxSeed       == 2      \* x_zero ranges over 0..MaxSeed
MaxUpperBound == 2      \* upper_bound ranges over -1..MaxUpperBound

SmallLCGArgs ==
    {[a |-> ZInt(av), c |-> ZInt(cv), m |-> ZInt(mv), x_zero |-> ZInt(sv),
      upper_bound |-> ub] :
        av \in -1..MaxA, cv \in -1..MaxA, mv \in -MaxNegM..MaxM,
        sv \in 0..MaxSeed, ub \in -1..MaxUpperBound}

\* the scenario of the documentation: a full period of length 16
Scenario ==
    [a |-> ZInt(5), c |-> ZInt(3), m |-> ZInt(16), x_zero |-> ZInt(1),
     upper_bound |-> 20]

Pow2(k) == Z(FALSE, [j \in 1..k |-> 0] \o <<1>>)

\* a modulus of the size of a float's mantissa
WideLCGArgs ==
    {[a |-> ZInt(av), c |-> ZAdd(Pow2(MantissaBits), ZInt(-cv)), m |-> Pow2(MantissaBits),
      x_zero |-> ZInt(0), upper_bound |-> ub] :
        av \in 0..1, cv \in 1..2, ub \in 0..1}

LCGArgs == SmallLCGArgs \cup {Scenario} \cup WideLCGArgs

RandGrid  == 2      \* random.uniform(0, 1) draws from {0, 1/RandGrid, ..., 1}
MaxTrials == 2      \* upper_limit ranges over 0..MaxTrials
MaxLimit  == 2      \* the declared bound m ranges over 0..MaxLimit
MaxEnd    == 2      \* 0 <= a <= b <= MaxEnd
MaxCoef   == 1      \* the density is slope * x + offset, both in 0..MaxCoef

UnitGrid == {Q(k, RandGrid) : k \in 0..RandGrid}

\* the function argument: the text of slope * x + offset
Densities == {[slope |-> sl, offset |-> of] : sl \in 0..MaxCoef, of \in 0..MaxCoef}

Supports == {ab \in (0..MaxEnd) \X (0..MaxEnd) : ab[1] <= ab[2]}

ARArgs ==
    {[m |-> mv, a |-> ab[1], b |-> ab[2], function |-> fv, upper_limit |-> ul] :
        mv \in 0..MaxLimit, ab \in Supports, fv \in Densities,
        ul \in 0..MaxTrials}

\* densities that are positive on the support, so that the computed maximum
\* is positive
ARSympArgs ==
    {[a |-> ab[1], b |-> ab[2], function |-> [slope |-> sl, offset |-> 1],
      upper_limit |-> ul] :
        ab \in {<<0, 1>>, <<1, 2>>}, sl \in 0..1, ul \in 0..MaxTrials}

MaxSamples == 2     \* n_samples ranges over 0..MaxSamples
MaxDraws   == 4     \* at most MaxDraws uniform draws are followed
MaxLoc     == 1     \* the quantile function is loc + scale * U
MaxScale   == 2
MaxClamp   == 2     \* a clamp bound is None or in 0..MaxClamp

Clamps == {PyNone} \cup {QInt(k) : k \in 0..MaxClamp}

\* dist_name, *args: the catalog's "uniform" with loc and scale;
\* inverse: the expression loc + scale * r
ITSArgs ==
    {[n_samples |-> n, loc |-> lv, scale |-> sv, lower_bound |-> lb,
      upper_bound |-> ub] :
        n \in 0..MaxSamples, lv \in 0..MaxLoc, sv \in 0..MaxScale,
        lb \in Clamps, ub \in Clamps}

MaxBranches == 2    \* the solver answers with 0..MaxBranches solutions
MaxExpr     == 3    \* the density expressions are numbered 1..MaxExpr

InvArgs == {[function |-> e] : e \in 1..MaxExpr}

----------------------------------------------------------------------------
(* random_mixed_congruential_generator and                                 *)
(* uniform_random_from_mixed_congruential_generator                        *)

Finished(f) == pc[f] \in {"returned", "raised"}

\* variant: the recurrence without the reduction modulo m
NextXUnreduced(a, c, modulus, cur) == ZAdd(ZMul(a, cur), c)

\* next_x = (a * current_x + c) % m, for m # 0
NextX(a, c, modulus, cur) ==
    CHOOSE r \in {PyMod(ZAdd(ZMul(a, cur), c), modulus)} : TRUE

\* variant: the loop test with a strict comparison
LoopGuardStrict(counter, upper_bound) == counter < upper_bound

\* while it <= upper_bound
LoopGuard(counter, upper_bound) == counter <= upper_bound

\* variant: the cycle test against zero instead of the seed
CycleClosedAtZero(next_x, x_zero) == next_x = ZInt(0)

\* if next_x == x_zero: break
CycleClosed(next_x, x_zero) == next_x = x_zero

\* (next_x + (1 / 2)) / m
Normalized(next_x, modulus) ==
    FDiv(FAdd(FromInt(next_x), FDiv(FromInt(ZInt(1)), FromInt(ZInt(2)))),
         FromInt(modulus))

\* numbers_generated = [], it = 0, current_x = x_zero
LCGEnter(f) ==
    /\ pc[f] = "pending"
    /\ pc' = [pc EXCEPT ![f] = "loop"]
    /\ numbers_generated' = [numbers_generated EXCEPT ![f] = <<>>]
    /\ it' = [it EXCEPT ![f] = 0]
    /\ current_x' = [current_x EXCEPT ![f] = args.x_zero]
    /\ UNCHANGED <<args, ret, exc, arVars, itsVars, invVars>>

\* return numbers_generated
LCGReturn(f) ==
    /\ pc' = [pc EXCEPT ![f] = "returned"]
    /\ ret' = [ret EXCEPT ![f] = Returned(numbers_generated'[f])]
    /\ UNCHANGED <<exc, it, current_x>>

\* the % of a zero modulus raises
LCGRaise(f) ==
    /\ pc' = [pc EXCEPT ![f] = "raised"]
    /\ exc' = [exc EXCEPT ![f] = "ZeroDivisionError"]
    /\ UNCHANGED <<ret, lcgVars>>

\* current_x = next_x, it += 1
LCGAdvance(f, next_x) ==
    /\ current_x' = [current_x EXCEPT ![f] = next_x]
    /\ it' = [it EXCEPT ![f] = it[f] + 1]
    /\ UNCHANGED <<pc, ret, exc>>

\* One step of a call: the locals' initialisation, or one evaluation of the
\* while test and, when it holds, one pass of the body.
random_mixed_congruential_generator ==
    /\ Raw \in DOMAIN pc
    /\ \/ LCGEnter(Raw)
       \/ /\ pc[Raw] = "loop"
          /\ UNCHANGED <<args, arVars, itsVars, invVars>>
          /\ IF ~LoopGuard(it[Raw], args.upper_bound)
             THEN UNCHANGED numbers_generated /\ LCGReturn(Raw)
             ELSE IF args.m = ZInt(0) THEN LCGRaise(Raw)
             ELSE LET next_x == NextX(args.a, args.c, args.m, current_x[Raw])
                  IN  /\ numbers_generated' =
                            [numbers_generated EXCEPT ![Raw] = Append(@, next_x)]
                      /\ IF CycleClosed(next_x, args.x_zero)
                         THEN LCGReturn(Raw)
                         ELSE LCGAdvance(Raw, next_x)

\* the driver calls it after random_mixed_congruential_generator, with the
\* same arguments
uniform_random_from_mixed_congruential_generator ==
    /\ Uni \in DOMAIN pc
    /\ Finished(Raw)
    /\ \/ LCGEnter(Uni)
       \/ /\ pc[Uni] = "loop"
          /\ UNCHANGED <<args, arVars, itsVars, invVars>>
          /\ IF ~LoopGuard(it[Uni], args.upper_bound)
             THEN UNCHANGED numbers_generated /\ LCGReturn(Uni)
             ELSE IF args.m = ZInt(0) THEN LCGRaise(Uni)
             ELSE LET next_x == NextX(args.a, args.c, args.m, current_x[Uni])
                  IN  /\ numbers_generated' =
                            [numbers_generated EXCEPT
                                ![Uni] = Append(@, Normalized(next_x, args.m))]
                      /\ IF CycleClosed(next_x, args.x_zero)
                         THEN LCGReturn(Uni)
                         ELSE LCGAdvance(Uni, next_x)

----------------------------------------------------------------------------
(* generate_acceptance_rejection and                                       *)
(* generate_acceptance_rejection_with_symp                                 *)

\* eval(function) with x bound, f.subs(x, x_value).evalf()
Evaluate(function, point) ==
    QAdd(QMul(QInt(function.slope), point), QInt(function.offset))

\* a + (b - a) * first_random
Candidate(a, b, u) == QAdd(QInt(a), QMul(QInt(b - a), u))

\* second_random <= evaluation_image / m, for m # 0
Accepts(u2, image, bound) == QLeq(u2, QDiv(image, bound))

GridPoints == 10000

\* np.linspace(a, b, GridPoints)[k], k from 0
Linspace(a, b, k) == QAdd(QInt(a), Q((b - a) * k, GridPoints - 1))

QMax(p, q) ==
    CHOOSE r \in {IF QLess(u, w) THEN w ELSE u : u \in {p}, w \in {q}} : TRUE

\* max([f.subs(x, val).evalf() for val in x_values[lo..hi]])
RECURSIVE GridMax(_, _, _, _, _)
GridMax(function, a, b, lo, hi) ==
    CHOOSE r \in {
        IF l = h THEN Evaluate(function, Linspace(a, b, l))
        ELSE QMax(GridMax(function, a, b, l, (l + h) \div 2),
                  GridMax(function, a, b, (l + h) \div 2 + 1, h))
        : l \in {lo}, h \in {hi}} : TRUE

AREnter(f, bound) ==
    /\ pc[f] = "pending"
    /\ pc' = [pc EXCEPT ![f] = "loop"]
    /\ m' = bound
    /\ i' = 0
    /\ UNCHANGED <<args, ret, exc, first_random, second_random, x,
                   evaluation_image, trials, lcgVars, itsVars, invVars>>

generate_acceptance_rejection ==
    /\ AR \in DOMAIN pc
    /\ \/ AREnter(AR, QInt(args.m))
       \/ /\ pc[AR] = "loop"
          /\ UNCHANGED <<args, m, lcgVars, itsVars, invVars>>
          /\ IF i >= args.upper_limit
             THEN \* range(0, upper_limit) is exhausted
                  /\ pc' = [pc EXCEPT ![AR] = "after_loop"]
                  /\ UNCHANGED <<ret, exc, i, first_random, second_random, x,
                                 evaluation_image, trials>>
             ELSE \E u1 \in UnitGrid, u2 \in UnitGrid :
                    LET point == Candidate(args.a, args.b, u1)
                        image == Evaluate(args.function, point)
                    IN  /\ i' = i + 1
                        /\ first_random' = u1
                        /\ second_random' = u2
                        /\ x' = point
                        /\ evaluation_image' = image
                        /\ IF args.m = 0
                           THEN /\ pc' = [pc EXCEPT ![AR] = "raised"]
                                /\ exc' = [exc EXCEPT ![AR] = "ZeroDivisionError"]
                                /\ UNCHANGED <<ret, trials>>
                           ELSE /\ trials' = Append(trials, Accepts(u2, image, m))
                                /\ pc' = [pc EXCEPT ![AR] =
                                            IF Accepts(u2, image, m)
                                            THEN "after_loop" ELSE "loop"]
                                /\ UNCHANGED <<ret, exc>>
       \/ \* lines 80-82: the prints read first_random and second_random
          /\ pc[AR] = "after_loop"
          /\ UNCHANGED <<args, arVars, lcgVars, itsVars, invVars>>
          /\ IF first_random = Unbound
             THEN /\ pc' = [pc EXCEPT ![AR] = "raised"]
                  /\ exc' = [exc EXCEPT ![AR] = "UnboundLocalError"]
                  /\ UNCHANGED ret
             ELSE /\ pc' = [pc EXCEPT ![AR] = "returned"]
                  /\ ret' = [ret EXCEPT ![AR] = Returned(evaluation_image)]
                  /\ UNCHANGED exc

\* variant: exhaustion returning the last evaluation, as the sibling does
NotFoundStale == Returned(evaluation_image)

\* print("No suitable random number found ..."); return None
NotFound == ReturnNone

generate_acceptance_rejection_with_symp ==
    /\ ARSymp \in DOMAIN pc
    /\ \/ AREnter(ARSymp, GridMax(args.function, args.a, args.b, 0, GridPoints - 1))
       \/ /\ pc[ARSymp] = "loop"
          /\ UNCHANGED <<args, m, exc, lcgVars, itsVars, invVars>>
          /\ IF i >= args.upper_limit
             THEN \* No suitable random number found: return None
                  /\ pc' = [pc EXCEPT ![ARSymp] = "returned"]
                  /\ ret' = [ret EXCEPT ![ARSymp] = NotFound]
                  /\ UNCHANGED <<i, first_random, second_random, x,
                                 evaluation_image, trials>>
             ELSE \E u1 \in UnitGrid, u2 \in UnitGrid :
                    LET first == Candidate(args.a, args.b, u1)  \* random.uniform(a, b)
                        point == Candidate(args.a, args.b, first)
                        image == Evaluate(args.function, point)
                    IN  /\ i' = i + 1
                        /\ first_random' = first
                        /\ second_random' = u2
                        /\ x' = point
                        /\ evaluation_image' = image
                        /\ trials' = Append(trials, Accepts(u2, image, m))
                        /\ IF Accepts(u2, image, m)
                           THEN /\ pc' = [pc EXCEPT ![ARSymp] = "returned"]
                                /\ ret' = [ret EXCEPT ![ARSymp] = Returned(image)]
                           ELSE UNCHANGED <<pc, ret>>

----------------------------------------------------------------------------
(* inverse_transform_sampling and                                          *)
(* user_inverse_transform_sampling_from_inverse                            *)

\* dist.ppf(U, *args, **kwargs) and inverse_func(U)
Quantile(loc, scale, u) == QAdd(QInt(loc), QMul(QInt(scale), u))

\* variant: the range test without its upper half
OutOfRangeBelowOnly(value, lower_bound, upper_bound) ==
    lower_bound # PyNone /\ QLess(value, lower_bound)

\* (lower_bound is not None and rv < lower_bound) or
\* (upper_bound is not None and rv > upper_bound)
OutOfRange(value, lower_bound, upper_bound) ==
    \/ lower_bound # PyNone /\ QLess(value, lower_bound)
    \/ upper_bound # PyNone /\ QLess(upper_bound, value)

\* variant: the loop test with an inclusive comparison
NeedMoreInclusive(batch, n_samples) == Len(batch) <= n_samples

\* while len(rvs) < n_samples
NeedMore(batch, n_samples) == Len(batch) < n_samples

ITSEnter(f) ==
    /\ pc[f] = "pending"
    /\ pc' = [pc EXCEPT ![f] = "loop"]
    /\ rvs' = <<>>
    /\ UNCHANGED <<args, ret, exc, U, rv, accepted_U, draws, lcgVars, arVars, invVars>>

\* return np.array(rvs)
ITSReturn(f) ==
    /\ pc' = [pc EXCEPT ![f] = "returned"]
    /\ ret' = [ret EXCEPT ![f] = Returned(rvs)]
    /\ UNCHANGED <<rvs, U, rv, accepted_U, draws>>

\* one pass of the body with the draw u: continue, or append
ITSDraw(u, candidate, discard) ==
    /\ draws < MaxDraws
    /\ draws' = draws + 1
    /\ U' = u
    /\ rv' = candidate
    /\ IF discard
       THEN UNCHANGED <<rvs, accepted_U>>
       ELSE rvs' = Append(rvs, candidate) /\ accepted_U' = Append(accepted_U, u)
    /\ UNCHANGED <<pc, ret>>

inverse_transform_sampling ==
    /\ ITS \in DOMAIN pc
    /\ \/ ITSEnter(ITS)
       \/ /\ pc[ITS] = "loop"
          /\ UNCHANGED <<args, exc, lcgVars, arVars, invVars>>
          /\ IF ~NeedMore(rvs, args.n_samples)
             THEN ITSReturn(ITS)
             ELSE \E u \in UnitGrid :
                    LET candidate == Quantile(args.loc, args.scale, u)
                    IN  ITSDraw(u, candidate,
                                OutOfRange(candidate, args.lower_bound, args.upper_bound))

user_inverse_transform_sampling_from_inverse ==
    /\ UserITS \in DOMAIN pc
    /\ \/ ITSEnter(UserITS)
       \/ /\ pc[UserITS] = "loop"
          /\ UNCHANGED <<args, exc, lcgVars, arVars, invVars>>
          /\ IF ~NeedMore(rvs, args.n_samples)
             THEN ITSReturn(UserITS)
             ELSE \E u \in UnitGrid :
                    LET candidate == Quantile(args.loc, args.scale, u)
                    IN  ITSDraw(u, candidate,
                                OutOfRange(candidate, args.lower_bound, args.upper_bound))

----------------------------------------------------------------------------
(* integrate_and_find_inverse.  The symbolic engine is a black box: the    *)
(* integral is a term, and smp.solve answers with a list of solutions or   *)
(* raises.                                                                 *)

SolverAnswers ==
    {[kind |-> "solutions", count |-> k] : k \in 0..MaxBranches}
        \cup {[kind |-> "PolynomialError", count |-> 0],
              [kind |-> "NotImplementedError", count |-> 0]}

integrate_and_find_inverse ==
    /\ Inv \in DOMAIN pc
    /\ UNCHANGED <<args, lcgVars, arVars, itsVars>>
    /\ \/ \* integrated = smp.integrate(function, x)
          /\ pc[Inv] = "pending"
          /\ pc' = [pc EXCEPT ![Inv] = "solve"]
          /\ integrated' = [integral_of |-> args.function]
          /\ UNCHANGED <<ret, exc, inverse>>
       \/ \* the try block
          /\ pc[Inv] = "solve"
          /\ \E answer \in SolverAnswers :
                IF answer.kind = "solutions"
                THEN LET solutions == [k \in 1..answer.count |->
                                          [branch |-> k, of |-> integrated]]
                     IN  /\ inverse' = solutions
                         /\ pc' = [pc EXCEPT ![Inv] = "returned"]
                         /\ ret' = [ret EXCEPT ![Inv] =
                                      Returned(<<integrated, solutions>>)]
                         /\ UNCHANGED <<exc, integrated>>
                ELSE IF answer.kind = "PolynomialError"
                THEN \* except smp.PolynomialError: return
                     /\ pc' = [pc EXCEPT ![Inv] = "returned"]
                     /\ ret' = [ret EXCEPT ![Inv] = ReturnNone]
                     /\ UNCHANGED <<exc, integrated, inverse>>
                ELSE /\ pc' = [pc EXCEPT ![Inv] = "raised"]
                     /\ exc' = [exc EXCEPT ![Inv] = answer.kind]
                     /\ UNCHANGED <<ret, integrated, inverse>>

----------------------------------------------------------------------------
\* The driver calls the functions fns with arguments drawn from argset.
Start(fns, argset) ==
    /\ args \in argset
    /\ pc = [f \in fns |-> "pending"]
    /\ ret = [f \in fns |-> NoValue]
    /\ exc = [f \in fns |-> ""]

Init ==
    /\ \/ Start(Engines, LCGArgs)
       \/ Start({AR}, ARArgs)
       \/ Start({ARSymp}, ARSympArgs)
       \/ Start({ITS}, ITSArgs)
       \/ Start({UserITS}, ITSArgs)
       \/ Start({Inv}, InvArgs)
    /\ numbers_generated = [f \in Engines |-> <<>>]
    /\ it = [f \in Engines |-> 0]
    /\ current_x = [f \in Engines |-> ZInt(0)]
    /\ m = Unbound /\ i = 0 /\ first_random = Unbound /\ second_random = Unbound
    /\ x = Unbound /\ evaluation_image = Unbound /\ trials = <<>>
    /\ rvs = <<>> /\ U = Unbound /\ rv = Unbound /\ accepted_U = <<>> /\ draws = 0
    /\ integrated = [integral_of |-> 0] /\ inverse = <<>>

Next ==
    \/ random_mixed_congruential_generator
    \/ uniform_random_from_mixed_congruential_generator
    \/ generate_acceptance_rejection
    \/ generate_acceptance_rejection_with_symp
    \/ inverse_transform_sampling
    \/ user_inverse_transform_sampling_from_inverse
    \/ integrate_and_find_inverse

Spec == Init /\ [][Next]_vars

\* a call that can take a step takes it: the program is sequential and
\* nothing suspends it
FairSpec == Spec /\ WF_vars(Next)

----------------------------------------------------------------------------
(* Properties of the congruential engines.                                 *)

IsLCG == Raw \in DOMAIN pc

IsRawResult == IsLCG /\ pc[Raw] = "returned"

\* m > 0, x0 in [0, m), max_iter >= 0
ValidLCG ==
    /\ ZLess(ZInt(0), args.m)
    /\ ~args.x_zero.neg
    /\ ZLess(args.x_zero, args.m)
    /\ args.upper_bound >= 0

IsInteger(v) == DOMAIN v = {"neg", "mag"}

\* C1: for a >= 0, c >= 0, m > 0, x0 in [0, m) and max_iter >= 0, every
\* element of the list random_mixed_congruential_generator returns is an
\* integer v with 0 <= v < m.
C1_ValuesInRange ==
    (IsRawResult /\ ValidLCG /\ ~args.a.neg /\ ~args.c.neg) =>
        \A k \in 1..Len(ret[Raw].value) :
            LET v == ret[Raw].value[k]
            IN  IsInteger(v) /\ ~v.neg /\ ZLess(v, args.m)

C1_Witness ==
    /\ IsRawResult /\ ValidLCG /\ ~args.a.neg /\ ~args.c.neg
    /\ Len(ret[Raw].value) >= 2
    /\ ret[Raw].value[1] # ret[Raw].value[2]

\* x_1 .. x_n of the recurrence x_{k+1} = (a * x_k + c) mod m, x_0 = x0
RECURSIVE OrbitTo(_)
OrbitTo(n) ==
    IF n = 0 THEN <<>>
    ELSE CHOOSE r \in {
            Append(prev, NextX(args.a, args.c, args.m,
                               IF n = 1 THEN args.x_zero ELSE prev[n - 1]))
            : prev \in {OrbitTo(n - 1)}} : TRUE

\* the indices k in 1..max_iter + 1 at which the orbit is back at x0
Returns(orbit) == {k \in 1..Len(orbit) : orbit[k] = args.x_zero}

\* L = min(K, max_iter + 1), K the first index of Returns
ExpectedLength(orbit) ==
    IF Returns(orbit) = {} THEN Len(orbit)
    ELSE CHOOSE k \in Returns(orbit) : \A j \in Returns(orbit) : k <= j

C2_Result ==
    (IsRawResult /\ ValidLCG) =>
        \E orbit \in {OrbitTo(args.upper_bound + 1)} :
            LET out == ret[Raw].value
                n   == Len(out)
            IN  /\ n <= args.upper_bound + 1
                /\ n = ExpectedLength(orbit)
                /\ out = SubSeq(orbit, 1, n)
                /\ \A k \in 1..(n - 1) : out[k] # args.x_zero
                /\ n < args.upper_bound + 1 => out[n] = args.x_zero

\* the loop counter is bounded, and a call that has not returned can step
C2_Progress ==
    (IsLCG /\ ValidLCG) =>
        /\ pc[Raw] # "raised"
        /\ pc[Raw] = "loop" =>
              /\ it[Raw] <= args.upper_bound + 1
              /\ Len(numbers_generated[Raw]) = it[Raw]
        /\ pc[Raw] \in {"pending", "loop"} =>
              ENABLED random_mixed_congruential_generator

\* every pass of the loop returns or counts one more iteration
C2_Step ==
    (IsLCG /\ ValidLCG /\ pc[Raw] = "loop" /\ random_mixed_congruential_generator) =>
        \/ pc'[Raw] = "returned"
        \/ pc'[Raw] = "loop" /\ it'[Raw] = it[Raw] + 1

\* C2: for valid inputs the call terminates and returns exactly the
\* recurrence x_1 .. x_L, L = min(K, max_iter + 1) with K the first k >= 1
\* with x_k = x0: the seed appears only as the last element, a list shorter
\* than max_iter + 1 ends with x0, no list is longer than max_iter + 1.
C2_TerminatesWithRecurrence ==
    /\ [](C2_Result /\ C2_Progress)
    /\ [][C2_Step]_vars
    /\ (IsLCG /\ ValidLCG) ~> IsRawResult

C2_Witness ==
    /\ IsRawResult /\ ValidLCG
    /\ Len(ret[Raw].value) >= 2
    /\ Len(ret[Raw].value) < args.upper_bound + 1

\* C3: with a=5, c=3, m=16, x0=1, max_iter=20 the call returns the sixteen
\* values 8, 11, 10, 5, 12, 15, 14, 9, 0, 3, 2, 13, 4, 7, 6, 1: the cycle
\* closes at the seed before the cap of 21 iterations.
C3_Scenario ==
    (IsRawResult /\ args = Scenario) =>
        /\ [k \in 1..Len(ret[Raw].value) |-> ZToInt(ret[Raw].value[k])]
              = <<8, 11, 10, 5, 12, 15, 14, 9, 0, 3, 2, 13, 4, 7, 6, 1>>
        /\ Len(ret[Raw].value) < args.upper_bound + 1

C3_Witness == IsRawResult /\ args = Scenario /\ it[Raw] = 15

FZero == FromInt(ZInt(0))

FOne == FromInt(ZInt(1))

\* C4: for valid inputs uniform_random_from_mixed_congruential_generator
\* returns a list of the length of the raw list, its k-th element is
\* (raw_k + 1/2) / m, and every element lies strictly between 0 and 1.
C4_Normalized ==
    (IsRawResult /\ ValidLCG /\ pc[Uni] = "returned") =>
        LET raw == ret[Raw].value
            uni == ret[Uni].value
        IN  /\ Len(uni) = Len(raw)
            /\ \A k \in 1..Len(uni) :
                  /\ uni[k] = Normalized(raw[k], args.m)
                  /\ FLess(FZero, uni[k])
                  /\ FLess(uni[k], FOne)

\* C8: a call of either engine with m <= 0 (and max_iter >= 0) is reported
\* as an error and returns no sequence.
C8_RejectsModulus ==
    (IsLCG /\ ~ZLess(ZInt(0), args.m) /\ args.upper_bound >= 0) =>
        \A f \in Engines : pc[f] # "returned"

----------------------------------------------------------------------------
(* Properties of the acceptance-rejection samplers.                        *)

\* C6: generate_acceptance_rejection returns a value only from a trial that
\* passed the acceptance test; when no trial passes it fails explicitly.
C6_NoStaleValue ==
    (AR \in DOMAIN pc /\ pc[AR] = "returned") =>
        trials # <<>> /\ trials[Len(trials)]

\* second_random <= evaluation_image / m for the locals of the last trial
\* (m > 0)
LastTestHolds ==
    second_random.n * evaluation_image.d * m.n
        <= evaluation_image.n * m.d * second_random.d

\* C7: generate_acceptance_rejection_with_symp never raises; it returns None
\* exactly when none of the upper_limit trials passes the test
\* second_random <= density(x_value) / m, and otherwise the density of the
\* first trial that passes, after which it makes no further trial.
C7_NoneOnExhaustion ==
    ARSymp \in DOMAIN pc =>
        /\ pc[ARSymp] # "raised"
        /\ Len(trials) = i
        /\ (pc[ARSymp] = "loop" /\ i > 0) => ~LastTestHolds
        /\ pc[ARSymp] = "returned" =>
              /\ ~ENABLED generate_acceptance_rejection_with_symp
              /\ IF ret[ARSymp].kind = "None"
                 THEN /\ i = args.upper_limit
                      /\ \A k \in 1..i : ~trials[k]
                      /\ i > 0 => ~LastTestHolds
                 ELSE /\ ret[ARSymp].kind = "value"
                      /\ i \in 1..args.upper_limit
                      /\ trials[i] /\ LastTestHolds
                      /\ \A k \in 1..(i - 1) : ~trials[k]
                      /\ ret[ARSymp].value = evaluation_image
                      /\ evaluation_image = Evaluate(args.function, x)
                      /\ x = Candidate(args.a, args.b, first_random)

C7_Witness ==
    /\ ARSymp \in DOMAIN pc /\ pc[ARSymp] = "returned"
    /\ ret[ARSymp].kind = "None"
    /\ args.upper_limit >= 2

----------------------------------------------------------------------------
(* Properties of the inverse-transform samplers.                           *)

Samplers == {ITS, UserITS} \cap DOMAIN pc

Clamped == args.lower_bound # PyNone /\ args.upper_bound # PyNone

InClamp(v) == QLeq(args.lower_bound, v) /\ QLeq(v, args.upper_bound)

\* C5: with both clamp bounds set, every value collected so far and every
\* value of the returned batch lies in [lower_bound, upper_bound].
C5_ClampRespected ==
    \A f \in Samplers :
        Clamped =>
            /\ \A k \in 1..Len(rvs) : InClamp(rvs[k])
            /\ pc[f] = "returned" =>
                  \A k \in 1..Len(ret[f].value) : InClamp(ret[f].value[k])

C5_Witness ==
    \E f \in Samplers :
        /\ Clamped /\ pc[f] = "returned"
        /\ Len(ret[f].value) >= 1
        /\ draws > Len(rvs)

\* what the quantile function yields on the grid of draws
Producible == {Quantile(args.loc, args.scale, u) : u \in UnitGrid}

Outside(v) ==
    \/ args.lower_bound # PyNone /\ QLess(v, args.lower_bound)
    \/ args.upper_bound # PyNone /\ QLess(args.upper_bound, v)

\* C10: a sampler returns only a batch of exactly n_samples values, each the
\* quantile of one draw, in the order accepted; without a clamp bound every
\* draw is accepted and the call returns after n_samples draws; redraws are
\* not capped, and when the clamp rejects every value (n_samples >= 1) the
\* call never returns.
C10_BatchOfNSamples ==
    \A f \in Samplers :
        /\ Len(accepted_U) = Len(rvs)
        /\ \A k \in 1..Len(rvs) :
              rvs[k] = Quantile(args.loc, args.scale, accepted_U[k])
        /\ pc[f] = "returned" =>
              /\ ret[f].kind = "value"
              /\ ret[f].value = rvs
              /\ Len(rvs) = args.n_samples
        /\ (args.lower_bound = PyNone /\ args.upper_bound = PyNone) =>
              /\ draws = Len(rvs)
              /\ pc[f] = "returned" => draws = args.n_samples
        /\ (pc[f] = "loop" /\ draws < MaxDraws) =>
              IF f = ITS THEN ENABLED inverse_transform_sampling
              ELSE ENABLED user_inverse_transform_sampling_from_inverse
        /\ (args.n_samples >= 1 /\ \A v \in Producible : Outside(v)) =>
              pc[f] # "returned" /\ rvs = <<>>

C10_Witness ==
    \E f \in Samplers :
        /\ pc[f] = "returned"
        /\ args.n_samples >= 2
        /\ draws > args.n_samples

----------------------------------------------------------------------------
(* Property of integrate_and_find_inverse.                                 *)

\* C9: when the solver yields no closed-form inverse the call signals an
\* error: it never returns None, nor a pair with an empty inverse list.
C9_InversionError ==
    (Inv \in DOMAIN pc /\ pc[Inv] = "returned") =>
        /\ ret[Inv].kind = "value"
        /\ ret[Inv].value[2] # <<>>

====
